---- MODULE Spec2Model ----
(***************************************************************************)
(* Player registration (nicolaslallier/WWIII-APIC).                        *)
(*                                                                         *)
(* RegisterPlayerUseCase.execute is a coroutine: it suspends at the three  *)
(* repository calls (find_by_username, find_by_email, create).  Several    *)
(* calls run concurrently against one players table whose username and     *)
(* email columns carry UNIQUE constraints.  Text is modelled as a sequence *)
(* of one-character strings, so lengths, character classes and UTF-8       *)
(* widths are computed as the code computes them.                          *)
(***************************************************************************)
EXTENDS Integers, Sequences, FiniteSets, TLC

VARIABLES store, pc, req, trace, password_hash, player, outcome, nextId, created,
          response, service, clock, token, issued, last, db

\* the registration use case and its repository
regVars == <<store, pc, req, trace, password_hash, player, outcome, nextId, created>>

\* the token service
authVars == <<service, clock, token, issued, last>>

\* what the use case does not touch: the endpoint's responses, the token service
\* the database session of a request
dbVars == <<db>>

callerVars == <<response, authVars, dbVars>>

vars == <<regVars, callerVars>>

\* Number of concurrent execute calls.
NumCalls == 2

Calls == 1..NumCalls

\* Python's None.
None == [none |-> TRUE]

----------------------------------------------------------------------------
\* Text helpers

Rep(ch, n) == [i \in 1..n |-> ch]

Last(s) == s[Len(s)]

Front(s) == SubSeq(s, 1, Len(s) - 1)

\* The characters the model's inputs are written in, by class.
Lower == {"a", "b", "c", "d", "o", "x", "y"}
Upper == {"A", "Z"}
Digit == {"0", "9"}
Letters == Lower \cup Upper

\* str.encode("utf-8") of one character: ASCII is one byte, e-acute two.
Utf8Char(ch) ==
    CASE ch = "e'" -> <<195, 169>>
      [] ch = "a" -> <<97>>
      [] ch = "b" -> <<98>>
      [] ch = "c" -> <<99>>
      [] ch = "d" -> <<100>>
      [] ch = "o" -> <<111>>
      [] ch = "x" -> <<120>>
      [] ch = "y" -> <<121>>
      [] ch = "A" -> <<65>>
      [] ch = "Z" -> <<90>>
      [] ch = "0" -> <<48>>
      [] ch = "9" -> <<57>>
      [] ch = "_" -> <<95>>
      [] ch = "-" -> <<45>>
      [] ch = "." -> <<46>>
      [] ch = "@" -> <<64>>
      [] ch = "!" -> <<33>>
      [] ch = "%" -> <<37>>
      [] ch = "+" -> <<43>>
      [] ch = "nl" -> <<10>>
      [] OTHER -> <<63>>

RECURSIVE Utf8Encode(_)
Utf8Encode(s) == IF s = <<>> THEN <<>> ELSE Utf8Encode(Front(s)) \o Utf8Char(Last(s))

----------------------------------------------------------------------------
\* Domain value objects (app/domain/player.py)

UsernameMinLen == 3
UsernameMaxLen == 30

UsernameChars == Letters \cup Digit \cup {"_", "-"}
EmailLocalChars == Letters \cup Digit \cup {".", "_", "%", "+", "-"}
EmailDomainChars == Letters \cup Digit \cup {".", "-"}

AllIn(s, lo, hi, chars) == \A i \in lo..hi : s[i] \in chars

\* re.match(r"^...$", value): Python's $ matches at the end of the string and
\* also just before a newline that ends the string.
DollarBodies(s) ==
    {s} \cup (IF s # <<>> /\ Last(s) = "nl" THEN {Front(s)} ELSE {})

\* r"^[a-zA-Z0-9_-]+$"
UsernamePatternMatches(s) ==
    \E b \in DollarBodies(s) : Len(b) >= 1 /\ AllIn(b, 1, Len(b), UsernameChars)

\* r"^[a-zA-Z0-9._%+-]+@[a-zA-Z0-9.-]+\.[a-zA-Z]{2,}$"
EmailPatternMatches(s) ==
    \E b \in DollarBodies(s) :
        \E at \in 1..Len(b), dot \in 1..Len(b) :
            /\ b[at] = "@"
            /\ at >= 2
            /\ AllIn(b, 1, at - 1, EmailLocalChars)
            /\ dot >= at + 2
            /\ AllIn(b, at + 1, dot - 1, EmailDomainChars)
            /\ b[dot] = "."
            /\ Len(b) - dot >= 2
            /\ AllIn(b, dot + 1, Len(b), Letters)

Ok(v) == [ok |-> TRUE, value |-> v]
Raise(cls, m) == [ok |-> FALSE, exc |-> cls, msg |-> m]

\* Username.__init__
Username(value) ==
    IF ~(UsernameMinLen <= Len(value) /\ Len(value) <= UsernameMaxLen)
    THEN Raise("ValueError", "Username must be between 3 and 30 characters")
    ELSE IF ~UsernamePatternMatches(value)
    THEN Raise("ValueError",
               "Username can only contain letters, numbers, underscores, and hyphens")
    ELSE Ok([cls |-> "Username", value |-> value])

\* Email.__init__
Email(value) ==
    IF value = <<>>
    THEN Raise("ValueError", "Email cannot be empty")
    ELSE IF ~EmailPatternMatches(value)
    THEN Raise("ValueError", "Invalid email format")
    ELSE Ok([cls |-> "Email", value |-> value])

\* class Country(str, Enum)
Country == {"USA", "RUSSIA", "CHINA", "EUROPE"}

\* Variant: class DuplicatePlayerError(ValueError)
ExcBases_DuplicateIsValueError ==
    [DuplicatePlayerError |-> {"DuplicatePlayerError", "ValueError", "Exception"},
     ValueError |-> {"ValueError", "Exception"},
     IntegrityError |-> {"IntegrityError", "Exception"},
     MultipleResultsFound |-> {"MultipleResultsFound", "Exception"},
     RuntimeError |-> {"RuntimeError", "Exception"},
     NoResultFound |-> {"NoResultFound", "Exception"},
     JWTError |-> {"JWTError", "Exception"},
     ExpiredSignatureError |-> {"ExpiredSignatureError", "JWTError", "Exception"},
     JWTClaimsError |-> {"JWTClaimsError", "JWTError", "Exception"}]

\* Exception classes and their base classes, as execute and its callers see them.
ExcBases ==
    [DuplicatePlayerError |-> {"DuplicatePlayerError", "Exception"},
     ValueError |-> {"ValueError", "Exception"},
     IntegrityError |-> {"IntegrityError", "Exception"},
     MultipleResultsFound |-> {"MultipleResultsFound", "Exception"},
     RuntimeError |-> {"RuntimeError", "Exception"},
     NoResultFound |-> {"NoResultFound", "Exception"},
     JWTError |-> {"JWTError", "Exception"},
     ExpiredSignatureError |-> {"ExpiredSignatureError", "JWTError", "Exception"},
     JWTClaimsError |-> {"JWTClaimsError", "JWTError", "Exception"}]

IsInstance(exc, cls) == cls \in ExcBases[exc]

----------------------------------------------------------------------------
\* Values

\* dict: a set of <<key, value>> pairs
Dict(items) == [items |-> items]
EmptyDict == Dict({})

\* "d or {}"
OrEmptyDict(d) == IF d = None THEN EmptyDict ELSE IF d.items = {} THEN EmptyDict ELSE d

\* Player.__init__ with an explicit id (the "id or uuid.uuid4()" choice is made
\* by the caller, which owns the uuid source)
Player(username, email, pwhash, country, initial_resources, id) ==
    [id |-> id,
     username |-> username,
     email |-> email,
     password_hash |-> pwhash,
     country |-> country,
     initial_resources |-> OrEmptyDict(initial_resources)]

----------------------------------------------------------------------------
\* Requests: the arguments of one execute call

U1 == <<"a", "b", "c">>
U2 == <<"x", "_", "9">>
UShort == <<"a", "b">>

E1 == <<"a", "@", "b", ".", "c", "o">>
E2 == <<"x", "@", "y", ".", "d", "o">>
ENoTld == <<"a", "@", "b">>

\* 8 bytes; 100 bytes; 71 one-byte characters, a two-byte character that
\* straddles byte 72, and one more
PwShort == <<"a", "b", "c", "d", "0", "0", "9", "9">>
PwLong == Rep("a", 100)
PwMulti == Rep("a", 71) \o <<"e'", "b">>

Request(u, e, p, c, r) ==
    [username |-> u, email |-> e, password |-> p, country |-> c, initial_resources |-> r]

Requests ==
    {Request(U1, E1, PwShort, "USA", None),
     Request(U1, E2, PwLong, "CHINA", Dict({<<"money", 1000>>})),
     Request(U2, E1, PwMulti, "RUSSIA", EmptyDict),
     Request(UShort, E2, PwLong, "EUROPE", None),
     Request(U2, ENoTld, PwShort, "USA", Dict({<<"money", 1000>>})),
     Request(UShort, <<>>, PwShort, "CHINA", None)}

NoRequest == Request(<<>>, <<>>, <<>>, "USA", None)

\* password.encode("utf-8"), computed once for each password of the requests
PasswordBytes == [p \in {r.password : r \in Requests} |-> Utf8Encode(p)]

----------------------------------------------------------------------------
\* Password hashing (app/use_cases/register_player.py, lines 68-85)

BcryptMaxBytes == 72

\* Variant: the bytes are passed on whole
Truncate_NoCut(bytes) == bytes

\* "password_bytes[:72] if len(password_bytes) > 72"
Truncate(bytes) ==
    IF Len(bytes) > BcryptMaxBytes THEN SubSeq(bytes, 1, BcryptMaxBytes) ELSE bytes

\* bcrypt.gensalt(): the random salts, abstracted to one value (no property
\* below tells two salts apart)
Salts == {"salt"}

\* Variant: the key bytes are kept as they are
Hashpw_Plain(key, salt) == [ident |-> "plain", salt |-> "", key |-> key]

\* bcrypt.hashpw(key, salt).decode("utf-8"): a "2b" hash of the key bytes
Hashpw(key, salt) == [ident |-> "2b", salt |-> salt, key |-> key]

\* The messages of the hashing library that contain the over-length phrase
\* tested by: "password cannot be longer than 72 bytes" in str(e)
OverLengthMessages ==
    {"password cannot be longer than 72 bytes",
     "password cannot be longer than 72 bytes, truncate manually if necessary"}

MentionsOverLength(msg) == msg \in OverLengthMessages

\* What self._pwd_context.hash(password) can do: return a hash, report the
\* over-length input, raise another ValueError, raise something else.
HashBehaviours == {"ok", "too_long", "too_long_verbose", "value_error", "runtime_error"}

PwdContextHash(password, behaviour, salt) ==
    CASE behaviour = "ok" -> Ok(Hashpw(Truncate(PasswordBytes[password]), salt))
      [] behaviour = "too_long" ->
            Raise("ValueError", "password cannot be longer than 72 bytes")
      [] behaviour = "too_long_verbose" ->
            Raise("ValueError",
                  "password cannot be longer than 72 bytes, truncate manually if necessary")
      [] behaviour = "value_error" -> Raise("ValueError", "Some other error")
      [] OTHER -> Raise("RuntimeError", "hashing backend failure")

\* Variant: every ValueError of the hasher engages the fallback
HashWithFallback_AnyValueError(password, behaviour, salt) ==
    LET r == PwdContextHash(password, behaviour, salt) IN
    IF r.ok
    THEN [result |-> r, fallback |-> FALSE]
    ELSE IF IsInstance(r.exc, "ValueError")
    THEN [result |-> Ok(Hashpw(Truncate(PasswordBytes[password]), salt)), fallback |-> TRUE]
    ELSE [result |-> r, fallback |-> FALSE]

\* The try/except around the hash: [result, fallback], where fallback tells
\* whether bcrypt.hashpw was called directly.
HashWithFallback(password, behaviour, salt) ==
    LET r == PwdContextHash(password, behaviour, salt) IN
    IF r.ok
    THEN [result |-> r, fallback |-> FALSE]
    ELSE IF IsInstance(r.exc, "ValueError") /\ MentionsOverLength(r.msg)
    THEN [result |-> Ok(Hashpw(Truncate(PasswordBytes[password]), salt)), fallback |-> TRUE]
    ELSE [result |-> r, fallback |-> FALSE]

----------------------------------------------------------------------------
\* Token service (app/services/auth.py) over jose.jwt

\* Python values of several types met in one place: str, int, datetime
Str(s) == [str |-> s]
PyInt(n) == [int |-> n]
Datetime(t) == [datetime |-> t]

IsStr(v) == "str" \in DOMAIN v

\* "not v"
Falsy(v) == v = None \/ v = Str("") \/ v = PyInt(0)

\* Resolution of the clock: datetime.now(UTC) is read in ticks, this many to
\* the second
TicksPerSecond == 2

SecondsPerMinute == 60

\* timedelta(minutes=n), in ticks
Minutes(n) == n * SecondsPerMinute * TicksPerSecond

\* timegm(dt.utctimetuple()): the whole seconds of a datetime
Timegm(dt) == dt.datetime \div TicksPerSecond

\* The clock when the model starts, and the instants it is read at: the first
\* ticks of the seconds around the start and around one, two and three minutes
\* later
StartSecond == 120
StartTime == StartSecond * TicksPerSecond

Times ==
    {(StartSecond + m * SecondsPerMinute + sec) * TicksPerSecond + k :
        m \in 0..3, sec \in 0..1, k \in 0..(TicksPerSecond - 1)}

Algorithms == {"HS256", "HS512"}

\* the signature of header and claims under a key
Sign(key, alg, claims) == [key |-> key, alg |-> alg, claims |-> claims]

\* jwt.encode(claims, key, algorithm): a datetime "exp" becomes whole seconds
Encode(claims, key, alg) ==
    LET payload == [k \in DOMAIN claims |->
                       IF k = "exp" THEN Timegm(claims[k]) ELSE claims[k]]
    IN  [header |-> [alg |-> alg], claims |-> payload, sig |-> Sign(key, alg, payload)]

\* a string that is no JWT, such as "invalid.token.here"
MalformedToken == [malformed |-> TRUE]

\* Variant: an expired token is reported like any invalid one
Decode_ExpiredAsInvalid(t, key, algorithms, now) ==
    IF "malformed" \in DOMAIN t
    THEN Raise("JWTError", "Error decoding token headers.")
    ELSE IF t.header.alg \notin algorithms
    THEN Raise("JWTError", "The specified alg value is not allowed")
    ELSE IF t.sig # Sign(key, t.header.alg, t.claims)
    THEN Raise("JWTError", "Signature verification failed.")
    ELSE IF "exp" \in DOMAIN t.claims /\ t.claims.exp < Timegm(Datetime(now))
    THEN Raise("JWTError", "Signature has expired.")
    ELSE IF "sub" \in DOMAIN t.claims /\ ~IsStr(t.claims.sub)
    THEN Raise("JWTClaimsError", "Subject must be a string.")
    ELSE Ok(t.claims)

\* jwt.decode(token, key, algorithms=[...]) at time now: the token is parsed,
\* its algorithm and signature are checked, then its claims: "exp" against
\* the whole seconds of now, "sub" for being a string
Decode(t, key, algorithms, now) ==
    IF "malformed" \in DOMAIN t
    THEN Raise("JWTError", "Error decoding token headers.")
    ELSE IF t.header.alg \notin algorithms
    THEN Raise("JWTError", "The specified alg value is not allowed")
    ELSE IF t.sig # Sign(key, t.header.alg, t.claims)
    THEN Raise("JWTError", "Signature verification failed.")
    ELSE IF "exp" \in DOMAIN t.claims /\ t.claims.exp < Timegm(Datetime(now))
    THEN Raise("ExpiredSignatureError", "Signature has expired.")
    ELSE IF "sub" \in DOMAIN t.claims /\ ~IsStr(t.claims.sub)
    THEN Raise("JWTClaimsError", "Subject must be a string.")
    ELSE Ok(t.claims)

\* Settings: the fields the token service reads
Settings(secret, alg, ttl) ==
    [jwt_secret_key |-> secret, jwt_algorithm |-> alg, jwt_access_token_expire_minutes |-> ttl]

\* jwt_secret_key: str | None; jwt_access_token_expire_minutes: int, ge=1
SecretKeys == {None, Str(""), Str("k1")}
ExpireMinutes == {1, 2}

AllSettings ==
    {Settings(k, a, m) : k \in SecretKeys, a \in Algorithms, m \in ExpireMinutes}

\* Variant: the secret is not checked
AuthService_NoCheck(settings) ==
    Ok([settings |-> settings, jwt_secret_key |-> settings.jwt_secret_key])

\* AuthService.__init__
AuthService(settings) ==
    IF Falsy(settings.jwt_secret_key)
    THEN Raise("ValueError", "JWT_SECRET_KEY must be set")
    ELSE Ok([settings |-> settings, jwt_secret_key |-> settings.jwt_secret_key])

\* Variant: the lifetime is added as seconds
CreateAccessToken_TtlAsSeconds(svc, player_id, now) ==
    LET expire == Datetime(now + svc.settings.jwt_access_token_expire_minutes * TicksPerSecond)
    IN  Encode([sub |-> player_id, exp |-> expire], svc.jwt_secret_key,
               svc.settings.jwt_algorithm)

\* AuthService.create_access_token at time now
CreateAccessToken(svc, player_id, now) ==
    LET expire == Datetime(now + Minutes(svc.settings.jwt_access_token_expire_minutes))
    IN  Encode([sub |-> player_id, exp |-> expire], svc.jwt_secret_key,
               svc.settings.jwt_algorithm)

\* AuthService.verify_token at time now
VerifyToken(svc, t, now) ==
    Decode(t, svc.jwt_secret_key, {svc.settings.jwt_algorithm}, now)

\* payload.get("sub")
GetSub(payload) == IF "sub" \in DOMAIN payload THEN payload.sub ELSE None

\* Variant: the subject is returned as it is
GetPlayerIdFromToken_NoSubCheck(svc, t, now) ==
    LET r == VerifyToken(svc, t, now) IN
    IF ~r.ok THEN r ELSE Ok(GetSub(r.value))

\* AuthService.get_player_id_from_token at time now
GetPlayerIdFromToken(svc, t, now) ==
    LET r == VerifyToken(svc, t, now) IN
    IF ~r.ok THEN r
    ELSE LET sub_value == GetSub(r.value) IN
         IF Falsy(sub_value) \/ ~IsStr(sub_value)
         THEN Raise("JWTError", "Token does not contain player ID")
         ELSE Ok(sub_value)

----------------------------------------------------------------------------
\* Repository over the players table
\* (app/adapters/repositories/player_repository.py, app/models/player.py)

\* result.scalar_one_or_none()
ScalarOneOrNone(rows) ==
    IF rows = {} THEN Ok(None)
    ELSE IF Cardinality(rows) = 1 THEN Ok(CHOOSE m \in rows : TRUE)
    ELSE Raise("MultipleResultsFound", "Multiple rows were found when one or none was required")

\* Variant: the resources of the row are not carried over
ToDomain_DefaultResources(model) ==
    LET u == Username(model.username)
        e == Email(model.email)
    IN  IF ~u.ok THEN u
        ELSE IF ~e.ok THEN e
        ELSE Ok(Player(u.value, e.value, model.password_hash, model.country, None, model.id))

\* PlayerRepositoryImpl._to_domain
ToDomain(model) ==
    LET u == Username(model.username)
        e == Email(model.email)
    IN  IF ~u.ok THEN u
        ELSE IF ~e.ok THEN e
        ELSE IF model.country \notin Country
        THEN Raise("ValueError", "not a valid Country")
        ELSE Ok(Player(u.value, e.value, model.password_hash, model.country,
                       model.initial_resources, model.id))

FoundToDomain(found) ==
    IF ~found.ok THEN found
    ELSE IF found.value = None THEN Ok(None)
    ELSE ToDomain(found.value)

\* Variant: the username is compared with the email column
RepoFindByUsername_WrongColumn(table, username) ==
    FoundToDomain(ScalarOneOrNone({m \in table : m.email = username}))

\* PlayerRepositoryImpl.find_by_username
RepoFindByUsername(table, username) ==
    FoundToDomain(ScalarOneOrNone({m \in table : m.username = username}))

\* PlayerRepositoryImpl.find_by_email
RepoFindByEmail(table, email) ==
    FoundToDomain(ScalarOneOrNone({m \in table : m.email = email}))

\* PlayerModel(...) built in PlayerRepositoryImpl.create
ToModel(p) ==
    [id |-> p.id,
     username |-> p.username.value,
     email |-> p.email.value,
     password_hash |-> p.password_hash,
     country |-> p.country,
     initial_resources |-> p.initial_resources]

\* Variant: the table has a primary key only, no UNIQUE columns
ViolatesConstraint_PrimaryKeyOnly(table, model) ==
    \E m \in table : m.id = model.id

\* Variant: the username column is not UNIQUE
ViolatesConstraint_UsernameNotUnique(table, model) ==
    \E m \in table :
        \/ m.id = model.id
        \/ m.email = model.email

\* The table's constraints: primary key id, unique username, unique email
ViolatesConstraint(table, model) ==
    \E m \in table :
        \/ m.id = model.id
        \/ m.username = model.username
        \/ m.email = model.email

\* session.add + flush + refresh + _to_domain: [table, result]
RepoCreate(table, p) ==
    LET model == ToModel(p) IN
    IF ViolatesConstraint(table, model)
    THEN [table |-> table,
          result |-> Raise("IntegrityError", "duplicate key value violates unique constraint")]
    ELSE [table |-> table \cup {model}, result |-> ToDomain(model)]

----------------------------------------------------------------------------
\* State

Event(op, res) == [op |-> op, res |-> res]

\* a call that raised: the event keeps the error
ErrEvent(op, res, r) == [op |-> op, res |-> res, exc |-> r.exc, msg |-> r.msg]

\* how a call ended: still running, returned a value, raised an error
Pending == [kind |-> "pending"]
Returned(v) == [kind |-> "returned", value |-> v]
Raised(r) == [kind |-> "raised", exc |-> r.exc, msg |-> r.msg]

\* The session dependency between two requests, over the committed rows
NoSession(rows) ==
    [phase |-> "idle", committed |-> rows, before |-> rows, pending |-> {}, flushed |-> {},
     body |-> "none", commit |-> "none", error |-> "none", result |-> "none",
     commits |-> 0, rollbacks |-> 0, closes |-> 0, served |-> 0]

\* An account registered before the calls of the model start
SeedPlayer ==
    Player(Username(U2).value, Email(E2).value, Hashpw(PasswordBytes[PwShort], "salt"),
           "EUROPE", None, 0)

\* The players table when the service starts: empty, or holding SeedPlayer
InitialTables == {{}, {ToModel(SeedPlayer)}}

Init ==
    /\ store \in InitialTables
    /\ pc = [c \in Calls |-> "idle"]
    /\ req = [c \in Calls |-> NoRequest]
    /\ trace = [c \in Calls |-> <<>>]
    /\ password_hash = [c \in Calls |-> None]
    /\ player = [c \in Calls |-> None]
    /\ outcome = [c \in Calls |-> Pending]
    /\ nextId = 1
    /\ created = [c \in Calls |-> None]
    /\ response = [c \in Calls |-> Pending]
    /\ service = None
    /\ clock = StartTime
    /\ token = None
    /\ issued = None
    /\ last = None
    /\ db = NoSession({})

\* execute raises r: the coroutine ends
Fail(c, r) ==
    /\ pc' = [pc EXCEPT ![c] = "done"]
    /\ outcome' = [outcome EXCEPT ![c] = Raised(r)]

Log(c, events) == trace' = [trace EXCEPT ![c] = trace[c] \o events]

FoundKind(found) ==
    IF ~found.ok THEN "raised" ELSE IF found.value = None THEN "absent" ELSE "found"

----------------------------------------------------------------------------
\* RegisterPlayerUseCase.execute, one action per step

\* a caller invokes execute(username, email, password, country, initial_resources)
Execute(c) ==
    /\ pc[c] = "idle"
    /\ \E r \in Requests : req' = [req EXCEPT ![c] = r]
    /\ pc' = [pc EXCEPT ![c] = "find_by_username"]
    /\ UNCHANGED <<store, trace, password_hash, player, outcome, nextId, created>>
    /\ UNCHANGED callerVars

\* Variant: when the username is free the email lookup is skipped
CheckUsername_SkipsEmailCheck(c) ==
    /\ pc[c] = "find_by_username"
    /\ LET found == RepoFindByUsername(store, req[c].username) IN
       /\ Log(c, <<Event("find_by_username", FoundKind(found))>>)
       /\ IF ~found.ok THEN Fail(c, found)
          ELSE IF found.value # None
          THEN Fail(c, Raise("DuplicatePlayerError", "Username already exists"))
          ELSE /\ pc' = [pc EXCEPT ![c] = "hash"]
               /\ UNCHANGED outcome
    /\ UNCHANGED <<store, req, password_hash, player, nextId, created>>
    /\ UNCHANGED callerVars

\* Variant: a username conflict is remembered but the email is checked too
CheckUsername_ChecksEmailToo(c) ==
    /\ pc[c] = "find_by_username"
    /\ LET found == RepoFindByUsername(store, req[c].username) IN
       /\ Log(c, <<Event("find_by_username", FoundKind(found))>>)
       /\ IF ~found.ok THEN Fail(c, found)
          ELSE /\ pc' = [pc EXCEPT ![c] = "find_by_email"]
               /\ UNCHANGED outcome
    /\ UNCHANGED <<store, req, password_hash, player, nextId, created>>
    /\ UNCHANGED callerVars

\* lines 58-61
CheckUsername(c) ==
    /\ pc[c] = "find_by_username"
    /\ LET found == RepoFindByUsername(store, req[c].username) IN
       /\ Log(c, <<Event("find_by_username", FoundKind(found))>>)
       /\ IF ~found.ok THEN Fail(c, found)
          ELSE IF found.value # None
          THEN Fail(c, Raise("DuplicatePlayerError", "Username already exists"))
          ELSE /\ pc' = [pc EXCEPT ![c] = "find_by_email"]
               /\ UNCHANGED outcome
    /\ UNCHANGED <<store, req, password_hash, player, nextId, created>>
    /\ UNCHANGED callerVars

\* Variant: the result of the email lookup is not tested
CheckEmail_ResultIgnored(c) ==
    /\ pc[c] = "find_by_email"
    /\ LET found == RepoFindByEmail(store, req[c].email) IN
       /\ Log(c, <<Event("find_by_email", FoundKind(found))>>)
       /\ IF ~found.ok THEN Fail(c, found)
          ELSE /\ pc' = [pc EXCEPT ![c] = "hash"]
               /\ UNCHANGED outcome
    /\ UNCHANGED <<store, req, password_hash, player, nextId, created>>
    /\ UNCHANGED callerVars

\* lines 63-66
CheckEmail(c) ==
    /\ pc[c] = "find_by_email"
    /\ LET found == RepoFindByEmail(store, req[c].email) IN
       /\ Log(c, <<Event("find_by_email", FoundKind(found))>>)
       /\ IF ~found.ok THEN Fail(c, found)
          ELSE IF found.value # None
          THEN Fail(c, Raise("DuplicatePlayerError", "Email already exists"))
          ELSE /\ pc' = [pc EXCEPT ![c] = "hash"]
               /\ UNCHANGED outcome
    /\ UNCHANGED <<store, req, password_hash, player, nextId, created>>
    /\ UNCHANGED callerVars

\* lines 68-85
HashPassword(c) ==
    /\ pc[c] = "hash"
    /\ \E b \in HashBehaviours, salt \in Salts :
         LET h == HashWithFallback(req[c].password, b, salt)
             first == PwdContextHash(req[c].password, b, salt)
             primary == IF first.ok THEN Event("pwd_context.hash", "hash")
                        ELSE ErrEvent("pwd_context.hash", "raised", first)
         IN
         /\ Log(c, IF h.fallback THEN <<primary, Event("bcrypt.hashpw", "hash")>>
                   ELSE <<primary>>)
         /\ IF h.result.ok
            THEN /\ password_hash' = [password_hash EXCEPT ![c] = h.result.value]
                 /\ pc' = [pc EXCEPT ![c] = "build"]
                 /\ UNCHANGED outcome
            ELSE /\ Fail(c, h.result)
                 /\ UNCHANGED password_hash
    /\ UNCHANGED <<store, req, player, nextId, created>>
    /\ UNCHANGED callerVars

\* Variant: the raw strings are wrapped without validation
BuildPlayer_NoValidation(c) ==
    /\ pc[c] = "build"
    /\ Log(c, <<Event("Username", "ok"), Event("Email", "ok")>>)
    /\ player' = [player EXCEPT ![c] =
           Player([cls |-> "Username", value |-> req[c].username],
                  [cls |-> "Email", value |-> req[c].email],
                  password_hash[c], req[c].country,
                  OrEmptyDict(req[c].initial_resources), nextId)]
    /\ nextId' = nextId + 1
    /\ pc' = [pc EXCEPT ![c] = "create"]
    /\ UNCHANGED <<store, req, password_hash, outcome, created>>
    /\ UNCHANGED callerVars

\* Variant: every account gets the same id
BuildPlayer_ReusesId(c) ==
    /\ pc[c] = "build"
    /\ LET u == Username(req[c].username)
           e == Email(req[c].email)
       IN
       IF ~u.ok
       THEN /\ Log(c, <<Event("Username", "raised")>>)
            /\ Fail(c, u)
            /\ UNCHANGED <<player, nextId>>
       ELSE IF ~e.ok
       THEN /\ Log(c, <<Event("Username", "ok"), Event("Email", "raised")>>)
            /\ Fail(c, e)
            /\ UNCHANGED <<player, nextId>>
       ELSE /\ Log(c, <<Event("Username", "ok"), Event("Email", "ok")>>)
            /\ player' = [player EXCEPT ![c] =
                   Player(u.value, e.value, password_hash[c], req[c].country,
                          OrEmptyDict(req[c].initial_resources), 1)]
            /\ nextId' = nextId + 1
            /\ pc' = [pc EXCEPT ![c] = "create"]
            /\ UNCHANGED outcome
    /\ UNCHANGED <<store, req, password_hash, created>>
    /\ UNCHANGED callerVars

\* lines 87-94: Username(username), then Email(email), then Player(...), whose
\* id is a fresh uuid.uuid4()
BuildPlayer(c) ==
    /\ pc[c] = "build"
    /\ LET u == Username(req[c].username)
           e == Email(req[c].email)
       IN
       IF ~u.ok
       THEN /\ Log(c, <<Event("Username", "raised")>>)
            /\ Fail(c, u)
            /\ UNCHANGED <<player, nextId>>
       ELSE IF ~e.ok
       THEN /\ Log(c, <<Event("Username", "ok"), Event("Email", "raised")>>)
            /\ Fail(c, e)
            /\ UNCHANGED <<player, nextId>>
       ELSE /\ Log(c, <<Event("Username", "ok"), Event("Email", "ok")>>)
            /\ player' = [player EXCEPT ![c] =
                   Player(u.value, e.value, password_hash[c], req[c].country,
                          OrEmptyDict(req[c].initial_resources), nextId)]
            /\ nextId' = nextId + 1
            /\ pc' = [pc EXCEPT ![c] = "create"]
            /\ UNCHANGED outcome
    /\ UNCHANGED <<store, req, password_hash, created>>
    /\ UNCHANGED callerVars

\* Variant: a rejected create is attempted a second time
Create_Retries(c) ==
    /\ pc[c] = "create"
    /\ LET r == RepoCreate(store, player[c]) IN
       /\ store' = r.table
       /\ created' = [created EXCEPT ![c] = r.result]
       /\ Log(c, IF r.result.ok THEN <<Event("create", "created")>>
                 ELSE <<Event("create", "raised"), Event("create", "raised")>>)
       /\ pc' = [pc EXCEPT ![c] = "done"]
       /\ outcome' = [outcome EXCEPT ![c] =
              IF r.result.ok THEN Returned(r.result.value) ELSE Raised(r.result)]
    /\ UNCHANGED <<req, password_hash, player, nextId>>
    /\ UNCHANGED callerVars

\* Variant: the error of create is replaced by a duplicate report
Create_WrapsError(c) ==
    /\ pc[c] = "create"
    /\ LET r == RepoCreate(store, player[c]) IN
       /\ store' = r.table
       /\ created' = [created EXCEPT ![c] = r.result]
       /\ Log(c, <<Event("create", IF r.result.ok THEN "created" ELSE "raised")>>)
       /\ pc' = [pc EXCEPT ![c] = "done"]
       /\ outcome' = [outcome EXCEPT ![c] =
              IF r.result.ok THEN Returned(r.result.value)
              ELSE Raised(Raise("DuplicatePlayerError", "Username already exists"))]
    /\ UNCHANGED <<req, password_hash, player, nextId>>
    /\ UNCHANGED callerVars

\* lines 96-97
Create(c) ==
    /\ pc[c] = "create"
    /\ LET r == RepoCreate(store, player[c]) IN
       /\ store' = r.table
       /\ created' = [created EXCEPT ![c] = r.result]
       /\ Log(c, <<Event("create", IF r.result.ok THEN "created" ELSE "raised")>>)
       /\ pc' = [pc EXCEPT ![c] = "done"]
       /\ outcome' = [outcome EXCEPT ![c] =
              IF r.result.ok THEN Returned(r.result.value) ELSE Raised(r.result)]
    /\ UNCHANGED <<req, password_hash, player, nextId>>
    /\ UNCHANGED callerVars

Next ==
    \E c \in Calls :
        \/ Execute(c)
        \/ CheckUsername(c)
        \/ CheckEmail(c)
        \/ HashPassword(c)
        \/ BuildPlayer(c)
        \/ Create(c)

Spec == Init /\ [][Next]_vars

\* Sequential use: a call takes steps only while no other call is in progress
Alone(c) == \A o \in Calls \ {c} : pc[o] \in {"idle", "done"}

SeqExecute(c) == Alone(c) /\ Execute(c)
SeqCheckUsername(c) == Alone(c) /\ CheckUsername(c)
SeqCheckEmail(c) == Alone(c) /\ CheckEmail(c)
SeqHashPassword(c) == Alone(c) /\ HashPassword(c)
SeqBuildPlayer(c) == Alone(c) /\ BuildPlayer(c)
SeqCreate(c) == Alone(c) /\ Create(c)

SeqNext ==
    \E c \in Calls :
        \/ SeqExecute(c)
        \/ SeqCheckUsername(c)
        \/ SeqCheckEmail(c)
        \/ SeqHashPassword(c)
        \/ SeqBuildPlayer(c)
        \/ SeqCreate(c)

SeqSpec == Init /\ [][SeqNext]_vars

----------------------------------------------------------------------------
\* The use case over a test double of the repository port
\* (tests/unit/use_cases/test_register_player.py): create persists nothing
\* and returns the value it was configured with.

\* An account the double may return that shares no field with the one passed in
OtherPlayer ==
    Player(Username(<<"Z", "Z", "Z">>).value, Email(<<"Z", "@", "Z", ".", "Z", "Z">>).value,
           Hashpw(<<104>>, "salt"), "EUROPE", Dict({<<"oil", 5>>}), 77)

\* mock_repo.create.return_value: the account passed in, the same fields under
\* an id of the double's own, or an unrelated account
CreateReturnValues(p) == {p, [p EXCEPT !.id = 99], OtherPlayer}

\* Variant: execute returns the account it constructed
StubCreate_ReturnsLocal(c) ==
    /\ pc[c] = "create"
    /\ \E v \in CreateReturnValues(player[c]) :
         /\ created' = [created EXCEPT ![c] = Ok(v)]
         /\ outcome' = [outcome EXCEPT ![c] = Returned(player[c])]
    /\ Log(c, <<Event("create", "created")>>)
    /\ pc' = [pc EXCEPT ![c] = "done"]
    /\ UNCHANGED <<store, req, password_hash, player, nextId>>
    /\ UNCHANGED callerVars

\* lines 96-97 against the double: "return await self._repository.create(player)"
StubCreate(c) ==
    /\ pc[c] = "create"
    /\ \E v \in CreateReturnValues(player[c]) :
         /\ created' = [created EXCEPT ![c] = Ok(v)]
         /\ outcome' = [outcome EXCEPT ![c] = Returned(v)]
    /\ Log(c, <<Event("create", "created")>>)
    /\ pc' = [pc EXCEPT ![c] = "done"]
    /\ UNCHANGED <<store, req, password_hash, player, nextId>>
    /\ UNCHANGED callerVars

StubNext ==
    \E c \in Calls :
        \/ SeqExecute(c)
        \/ SeqCheckUsername(c)
        \/ SeqCheckEmail(c)
        \/ SeqHashPassword(c)
        \/ SeqBuildPlayer(c)
        \/ Alone(c) /\ StubCreate(c)

StubSpec == Init /\ [][StubNext]_vars

----------------------------------------------------------------------------
\* The token service in use: one service, one token in hand, one clock

\* the ids tokens are asked for
PlayerIds == {Str(""), Str("p1"), Str("p2")}

\* the claims of tokens made elsewhere with jwt.encode at time now: without a
\* subject, with a number or the empty string as subject, expired, valid
ForeignClaims(now) ==
    {[exp |-> Datetime(now + Minutes(1))],
     [sub |-> PyInt(12345), exp |-> Datetime(now + Minutes(1))],
     [sub |-> Str(""), exp |-> Datetime(now + Minutes(1))],
     [sub |-> Str("p1"), exp |-> Datetime(now - Minutes(1))],
     [sub |-> Str("p1"), exp |-> Datetime(now + Minutes(1))]}

ForeignKeys == {Str("k1"), Str("k2")}

ForeignTokens(now) ==
    {MalformedToken} \cup
    {Encode(cl, k, a) : cl \in ForeignClaims(now), k \in ForeignKeys, a \in Algorithms}

\* the call just made: [op, arg, result]
Call(op, arg, result) == [op |-> op, arg |-> arg, result |-> result]

\* AuthService(settings)
Construct ==
    /\ service = None
    /\ \E s \in AllSettings :
         LET r == AuthService(s) IN
         /\ service' = IF r.ok THEN r.value ELSE None
         /\ last' = Call("AuthService", s, r)
    /\ UNCHANGED <<clock, token, issued, response, regVars, dbVars>>

\* token = service.create_access_token(player_id)
Issue ==
    /\ service # None
    /\ \E id \in PlayerIds :
         LET t == CreateAccessToken(service, id, clock) IN
         /\ token' = t
         /\ issued' = [id |-> id, at |-> clock, token |-> t]
         /\ last' = Call("create_access_token", id, Ok(t))
    /\ UNCHANGED <<service, clock, response, regVars, dbVars>>

\* a token made elsewhere is presented
Present ==
    /\ \E t \in ForeignTokens(clock) : token' = t
    /\ issued' = None
    /\ last' = None
    /\ UNCHANGED <<service, clock, response, regVars, dbVars>>

\* the issued token is altered after it was signed
Tamper ==
    /\ issued # None
    /\ token = issued.token
    /\ token' = [token EXCEPT !.claims = [sub |-> Str("admin"), exp |-> token.claims.exp]]
    /\ issued' = None
    /\ last' = None
    /\ UNCHANGED <<service, clock, response, regVars, dbVars>>

\* service.verify_token(token)
Verify ==
    /\ service # None
    /\ token # None
    /\ last' = Call("verify_token", token, VerifyToken(service, token, clock))
    /\ UNCHANGED <<service, clock, token, issued, response, regVars, dbVars>>

\* service.get_player_id_from_token(token)
GetPlayerId ==
    /\ service # None
    /\ token # None
    /\ last' = Call("get_player_id_from_token", token,
                    GetPlayerIdFromToken(service, token, clock))
    /\ UNCHANGED <<service, clock, token, issued, response, regVars, dbVars>>

\* time passes
Advance ==
    /\ \E t \in Times : t > clock /\ clock' = t
    /\ last' = None
    /\ UNCHANGED <<service, token, issued, response, regVars, dbVars>>

AuthNext ==
    \/ Construct
    \/ Issue
    \/ Present
    \/ Tamper
    \/ Verify
    \/ GetPlayerId
    \/ Advance

AuthSpec == Init /\ [][AuthNext]_vars

----------------------------------------------------------------------------
\* The registration endpoint (app/api/v1/players.py, app/schemas/player.py)

PasswordMinLen == 8

\* EmailStr: one "@", a local part of permitted characters, and a domain of
\* dot-separated non-empty labels, at least two of them
EmailStrLocalChars == EmailLocalChars \cup {"!"}

EmailStrAccepts(e) ==
    \E at \in 1..Len(e) :
        /\ e[at] = "@"
        /\ \A i \in 1..Len(e) : e[i] = "@" => i = at
        /\ at >= 2
        /\ AllIn(e, 1, at - 1, EmailStrLocalChars)
        /\ e[1] # "." /\ e[at - 1] # "."
        /\ at < Len(e)
        /\ AllIn(e, at + 1, Len(e), EmailDomainChars)
        /\ \E i \in (at + 1)..Len(e) : e[i] = "."
        /\ e[at + 1] # "." /\ e[Len(e)] # "."
        /\ \A i \in (at + 1)..(Len(e) - 1) : ~(e[i] = "." /\ e[i + 1] = ".")

\* username: str = Field(..., min_length=3, max_length=30)
SchemaUsernameMinLen == 3
SchemaUsernameMaxLen == 30

\* validate_username: re.match(r"^[a-zA-Z0-9_-]+$", v)
ValidateUsername(v) ==
    \E b \in DollarBodies(v) :
        Len(b) >= 1 /\ AllIn(b, 1, Len(b), Letters \cup Digit \cup {"_", "-"})

\* Variant: the validator requires the whole string to be in the charset
SchemaUsernameAccepts_WholeString(v) ==
    /\ SchemaUsernameMinLen <= Len(v)
    /\ Len(v) <= SchemaUsernameMaxLen
    /\ Len(v) >= 1 /\ AllIn(v, 1, Len(v), Letters \cup Digit \cup {"_", "-"})

\* the username field of PlayerRegisterRequest: the length constraints of the
\* field, then the validator
SchemaUsernameAccepts(v) ==
    /\ SchemaUsernameMinLen <= Len(v)
    /\ Len(v) <= SchemaUsernameMaxLen
    /\ ValidateUsername(v)

\* PlayerRegisterRequest: Field(min_length=3, max_length=30) and
\* validate_username; EmailStr; Field(min_length=8); Country
SchemaAccepts(body) ==
    /\ SchemaUsernameAccepts(body.username)
    /\ EmailStrAccepts(body.email)
    /\ Len(body.password) >= PasswordMinLen
    /\ body.country \in Country

\* the validated request: initial_resources has default_factory=dict
Parsed(body) ==
    [body EXCEPT !.initial_resources = IF @ = None THEN EmptyDict ELSE @]

\* get_settings() of a deployment with its secret configured
ApiSettings == Settings(Str("k1"), "HS256", 1)

\* str(player.id)
UuidStr(id) == Str(ToString(id))

HttpError(status, detail) == [status |-> status, detail |-> detail]

\* Variant: the last except clause passes the error's message on
ErrorResponse_LeaksMessage(exc, msg) ==
    IF IsInstance(exc, "DuplicatePlayerError") THEN HttpError(409, msg)
    ELSE IF IsInstance(exc, "ValueError") THEN HttpError(422, msg)
    ELSE HttpError(500, msg)

\* the except clauses of register_player, in their order
ErrorResponse(exc, msg) ==
    IF IsInstance(exc, "DuplicatePlayerError") THEN HttpError(409, msg)
    ELSE IF IsInstance(exc, "ValueError") THEN HttpError(422, msg)
    ELSE HttpError(500, "An unexpected error occurred during registration.")

\* Variant: the token is made for the username
SuccessResponse_SubjectIsUsername(table, p, now) ==
    LET svc == AuthService(ApiSettings)
        rows == {m \in table : m.id = p.id}
    IN  IF ~svc.ok THEN ErrorResponse(svc.exc, svc.msg)
        ELSE IF Cardinality(rows) # 1
        THEN ErrorResponse("NoResultFound", "No row was found when one was required")
        ELSE [status |-> 201,
              player |-> [id |-> p.id, username |-> p.username.value,
                          email |-> p.email.value, country |-> p.country],
              access_token |-> CreateAccessToken(svc.value, Str(p.username.value), now)]

\* the body of register_player after execute returned p, at time now
SuccessResponse(table, p, now) ==
    LET svc == AuthService(ApiSettings)
        rows == {m \in table : m.id = p.id}
    IN  IF ~svc.ok THEN ErrorResponse(svc.exc, svc.msg)
        ELSE IF Cardinality(rows) # 1
        THEN ErrorResponse("NoResultFound", "No row was found when one was required")
        ELSE [status |-> 201,
              player |-> [id |-> p.id, username |-> p.username.value,
                          email |-> p.email.value, country |-> p.country],
              access_token |-> CreateAccessToken(svc.value, UuidStr(p.id), now)]

\* POST /players/register arrives: the body is validated against the schema
\* and, when valid, handed to execute
Receive(c) ==
    /\ pc[c] = "idle"
    /\ \E body \in Requests :
         IF SchemaAccepts(body)
         THEN /\ req' = [req EXCEPT ![c] = Parsed(body)]
              /\ pc' = [pc EXCEPT ![c] = "find_by_username"]
              /\ UNCHANGED response
         ELSE /\ req' = [req EXCEPT ![c] = body]
              /\ pc' = [pc EXCEPT ![c] = "responded"]
              /\ response' = [response EXCEPT ![c] = HttpError(422, "Request validation failed")]
    /\ UNCHANGED <<store, trace, password_hash, player, outcome, nextId, created>>
    /\ UNCHANGED <<authVars, dbVars>>

\* lines 103-148: execute has ended; the response is built
Respond(c) ==
    /\ pc[c] = "done"
    /\ pc' = [pc EXCEPT ![c] = "responded"]
    /\ response' = [response EXCEPT ![c] =
           IF outcome[c].kind = "returned"
           THEN SuccessResponse(store, outcome[c].value, clock)
           ELSE ErrorResponse(outcome[c].exc, outcome[c].msg)]
    /\ UNCHANGED <<store, req, trace, password_hash, player, outcome, nextId, created>>
    /\ UNCHANGED <<authVars, dbVars>>

ApiNext ==
    \E c \in Calls :
        \/ Receive(c)
        \/ CheckUsername(c)
        \/ CheckEmail(c)
        \/ HashPassword(c)
        \/ BuildPlayer(c)
        \/ Create(c)
        \/ Respond(c)

ApiSpec == Init /\ [][ApiNext]_vars

----------------------------------------------------------------------------
\* The value objects on their own: a constructor is applied to a string

\* Longest string enumerated in full
MaxTextLen == 3

TextChars == {"a", "Z", "9", "_", "-", "@", "nl"}

\* all strings of at most n characters
RECURSIVE Texts(_)
Texts(n) ==
    IF n = 0 THEN {<<>>}
    ELSE LET shorter == Texts(n - 1) IN
         shorter \cup {Append(t, ch) : t \in {x \in shorter : Len(x) = n - 1}, ch \in TextChars}

\* the short strings, and the same strings behind a valid prefix that brings
\* them to the maximal length and past it
UsernameInputs ==
    Texts(MaxTextLen) \cup {Rep("a", UsernameMaxLen - 2) \o t : t \in Texts(MaxTextLen)}

\* Username(value)
NewUsername ==
    /\ last = None
    /\ \E v \in UsernameInputs : last' = Call("Username", v, Username(v))
    /\ UNCHANGED <<service, clock, token, issued, response, regVars, dbVars>>

\* strings put together from a local part, an "@", a domain, a dot, a
\* top-level domain and an ending, each of them possibly missing or malformed
EmailLocals == {<<>>, <<"a">>, <<"Z", "9">>, <<"a", ".", "%">>, <<"!">>, <<"a", "@">>}
EmailDomains == {<<>>, <<"b">>, <<"b", "-", "9">>, <<"_">>, <<"b", ".", "c">>}
EmailTlds == {<<>>, <<"c">>, <<"c", "o">>, <<"c", "9">>, <<"d", "o", "x">>}
EmailEnds == {<<>>, <<"nl">>, <<"nl", "nl">>, <<" ">>}

EmailInputs ==
    Texts(MaxTextLen) \cup
    {l \o s \o dm \o dot \o t \o e :
        l \in EmailLocals, s \in {<<"@">>, <<>>}, dm \in EmailDomains,
        dot \in {<<".">>, <<>>}, t \in EmailTlds, e \in EmailEnds}

\* Email(value)
NewEmail ==
    /\ last = None
    /\ \E v \in EmailInputs : last' = Call("Email", v, Email(v))
    /\ UNCHANGED <<service, clock, token, issued, response, regVars, dbVars>>

\* hash(str): a function of the characters of the string, the same for
\* equal strings and shared by unequal ones
HashModulus == 5

RECURSIVE StrHash(_)
StrHash(s) ==
    IF s = <<>> THEN 0
    ELSE LET codes == [ch \in {Last(s)} |->
                          IF ch \in Lower THEN 1 ELSE IF ch \in Upper THEN 2
                          ELSE IF ch \in Digit THEN 3 ELSE 4]
         IN (3 * StrHash(Front(s)) + codes[Last(s)]) % HashModulus

\* isinstance(v, cls) for the value objects
IsValueObject(v, cls) == "cls" \in DOMAIN v /\ v.cls = cls

\* Variant: "return self.value == other" accepted next to the type check
UsernameEq_RawStringToo(self, other) ==
    IF ~IsValueObject(other, "Username") THEN other = Str(self.value)
    ELSE self.value = other.value

\* Username.__eq__(self, other)
UsernameEq(self, other) ==
    IF ~IsValueObject(other, "Username") THEN FALSE
    ELSE self.value = other.value

\* Username.__hash__(self)
UsernameHash(self) == StrHash(self.value)

\* Email.__eq__(self, other)
EmailEq(self, other) ==
    IF ~IsValueObject(other, "Email") THEN FALSE
    ELSE self.value = other.value

\* Email.__hash__(self)
EmailHash(self) == StrHash(self.value)

\* obj.__eq__(other) and hash(obj) as Python dispatches them on the class
Eq(self, other) ==
    IF self.cls = "Username" THEN UsernameEq(self, other) ELSE EmailEq(self, other)

Hash(v) == IF v.cls = "Username" THEN UsernameHash(v) ELSE EmailHash(v)

\* strings wrapped for comparison: valid usernames and emails, among them
\* strings that differ in one character and strings that share a hash
ComparedTexts ==
    {U1, U2, <<"a", "b", "d">>, <<"a", "b", "c", "nl">>, <<"A", "Z", "_">>, <<"Z", "A", "-">>,
     E1, E2, <<"a", "@", "b", ".", "c", "o", "nl">>}

ValueObjects ==
    {Username(t).value : t \in {x \in ComparedTexts : Username(x).ok}}
        \cup {Email(t).value : t \in {x \in ComparedTexts : Email(x).ok}}

\* what a value object is compared with: a value object, a raw string, a
\* number, None
Others ==
    ValueObjects \cup {Str(t) : t \in ComparedTexts} \cup {PyInt(123), PyInt(0), None}

\* a == b and hash(a), with a a value object
Equals ==
    /\ last = None
    /\ \E a \in ValueObjects, b \in Others :
           last' = Call("eq", <<a, b>>,
                        [eq |-> Eq(a, b),
                         hash |-> <<Hash(a), IF IsValueObject(b, "Username") \/ IsValueObject(b, "Email")
                                             THEN Hash(b) ELSE -1>>])
    /\ UNCHANGED <<service, clock, token, issued, response, regVars, dbVars>>

\* isinstance(v, Player)
IsPlayer(v) == "password_hash" \in DOMAIN v

\* Variant: entities compared field by field
PlayerEq_ByFields(self, other) ==
    IF ~IsPlayer(other) THEN FALSE
    ELSE [self EXCEPT !.id = 0] = [other EXCEPT !.id = 0]

\* Player.__eq__(self, other)
PlayerEq(self, other) ==
    IF ~IsPlayer(other) THEN FALSE
    ELSE self.id = other.id

\* Player.__hash__(self): hash(self.id)
PlayerHash(self) == self.id % HashModulus

\* ids passed to Player(...): none, or one of two uuids made elsewhere
ExplicitIds == {None, PyInt(7), PyInt(8)}

\* "id or uuid.uuid4()": a UUID is truthy, uuid4() is the next unused one
IdOrUuid4(id, fresh) == IF id = None THEN fresh ELSE id.int

ComparedFields ==
    [username : {Username(U1).value, Username(U2).value},
     email : {Email(E1).value},
     password_hash : {Hashpw(PasswordBytes[PwShort], "salt")},
     country : {"USA", "EUROPE"},
     initial_resources : {None}]

\* p1 = Player(...); p2 = Player(...) or something that is no Player;
\* p1 == p2, hash(p1), hash(p2)
PlayerEquals ==
    /\ last = None
    /\ \E f1 \in ComparedFields, i1 \in ExplicitIds :
           LET id1 == IdOrUuid4(i1, nextId)
               used == IF i1 = None THEN 1 ELSE 0
               p1 == Player(f1.username, f1.email, f1.password_hash, f1.country,
                            f1.initial_resources, id1)
           IN \/ \E f2 \in ComparedFields, i2 \in ExplicitIds :
                     LET id2 == IdOrUuid4(i2, nextId + used)
                         p2 == Player(f2.username, f2.email, f2.password_hash, f2.country,
                                      f2.initial_resources, id2)
                     IN /\ last' = Call("player_eq", <<p1, p2>>,
                                        [eq |-> PlayerEq(p1, p2),
                                         hash |-> <<PlayerHash(p1), PlayerHash(p2)>>,
                                         explicit |-> <<i1 # None, i2 # None>>])
                        /\ nextId' = nextId + used + (IF i2 = None THEN 1 ELSE 0)
              \/ \E o \in {Str(U1), PyInt(123), None} :
                     /\ last' = Call("player_eq", <<p1, o>>,
                                     [eq |-> PlayerEq(p1, o),
                                      hash |-> <<PlayerHash(p1), -1>>,
                                      explicit |-> <<i1 # None, FALSE>>])
                     /\ nextId' = nextId + used
    /\ UNCHANGED <<store, pc, req, trace, password_hash, player, outcome, created>>
    /\ UNCHANGED <<service, clock, token, issued, response, dbVars>>

ValueNext == NewUsername \/ NewEmail \/ Equals \/ PlayerEquals

ValueSpec == Init /\ [][ValueNext]_vars

----------------------------------------------------------------------------
\* The database session dependency (the generator that yields the session of
\* a request: try / yield / commit / except Exception / rollback / raise /
\* finally / close)

\* Requests served one after the other by the dependency
MaxRequests == 2

\* rows a request body flushes (PlayerRepositoryImpl.create: add, flush)
FlushedRows == {ToModel(SeedPlayer), ToModel(OtherPlayer)}

\* what a request body raises into the generator, what commit() raises
BodyExceptions == {"HTTPException", "SQLAlchemyError", "RuntimeError"}
CommitExceptions == {"Exception", "IntegrityError"}

\* "async with async_session_maker() as session: try: yield session"
Open ==
    /\ db.phase \in {"idle", "closed"}
    /\ db.served < MaxRequests
    /\ db' = [NoSession(db.committed) EXCEPT !.phase = "body", !.served = db.served + 1]
    /\ UNCHANGED <<regVars, response, authVars>>

\* the body flushes a row: session.add(model), session.flush()
Flush ==
    /\ db.phase = "body"
    /\ \E row \in FlushedRows \ (db.committed \cup db.pending) :
           db' = [db EXCEPT !.pending = @ \cup {row}, !.flushed = @ \cup {row}]
    /\ UNCHANGED <<regVars, response, authVars>>

\* the body completes: the generator is resumed after the yield
BodyReturns ==
    /\ db.phase = "body"
    /\ db' = [db EXCEPT !.phase = "commit", !.body = "returned"]
    /\ UNCHANGED <<regVars, response, authVars>>

\* the body raises: the exception is thrown into the generator at the yield
BodyRaises ==
    /\ db.phase = "body"
    /\ \E e \in BodyExceptions :
           db' = [db EXCEPT !.phase = "except", !.body = "raised", !.error = e]
    /\ UNCHANGED <<regVars, response, authVars>>

\* "await session.commit()": the pending rows become committed rows, or the
\* call raises and nothing is committed
Commit ==
    /\ db.phase = "commit"
    /\ \/ db' = [db EXCEPT !.phase = "finally", !.commit = "ok", !.commits = @ + 1,
                           !.committed = @ \cup db.pending, !.pending = {}]
       \/ \E e \in CommitExceptions :
              db' = [db EXCEPT !.phase = "except", !.commit = "failed", !.commits = @ + 1,
                               !.error = e]
    /\ UNCHANGED <<regVars, response, authVars>>

\* Variant: the except clause ends without "raise"
Rollback_Swallows ==
    /\ db.phase = "except"
    /\ db' = [db EXCEPT !.phase = "finally", !.rollbacks = @ + 1, !.pending = {},
                        !.error = "none"]
    /\ UNCHANGED <<regVars, response, authVars>>

\* "except Exception: await session.rollback(); raise"
Rollback ==
    /\ db.phase = "except"
    /\ db' = [db EXCEPT !.phase = "finally", !.rollbacks = @ + 1, !.pending = {}]
    /\ UNCHANGED <<regVars, response, authVars>>

\* "finally: await session.close()", then the generator ends: normally, or
\* with the exception that was re-raised
Close ==
    /\ db.phase = "finally"
    /\ db' = [db EXCEPT !.phase = "closed", !.closes = @ + 1, !.pending = {},
                        !.result = IF db.error = "none" THEN "ok" ELSE db.error]
    /\ UNCHANGED <<regVars, response, authVars>>

SessionNext ==
    Open \/ Flush \/ BodyReturns \/ BodyRaises \/ Commit \/ Rollback \/ Close

SessionSpec == Init /\ [][SessionNext]_vars

----------------------------------------------------------------------------
\* Properties

Has(c, ev) == \E i \in 1..Len(trace[c]) : trace[c][i] = ev
HasOp(c, op) == \E i \in 1..Len(trace[c]) : trace[c][i].op = op
Count(c, op) == Cardinality({i \in 1..Len(trace[c]) : trace[c][i].op = op})

DuplicateUsername == Raised(Raise("DuplicatePlayerError", "Username already exists"))
DuplicateEmail == Raised(Raise("DuplicatePlayerError", "Email already exists"))

\* C1: in every reachable state of the players table, under any interleaving
\* of concurrent execute calls, no two persisted accounts have the same
\* username and no two have the same email.
C1_UniqueAccounts ==
    \A m1, m2 \in store :
        (m1.username = m2.username \/ m1.email = m2.email) => m1 = m2

\* Two calls with the same username both found it absent; one was persisted,
\* the other's create was rejected by the table.
C1_Witness ==
    \E c, d \in Calls :
        /\ c # d
        /\ req[c].username = req[d].username
        /\ Has(c, Event("find_by_username", "absent"))
        /\ Has(d, Event("find_by_username", "absent"))
        /\ outcome[c].kind = "returned"
        /\ Has(d, Event("create", "raised"))
        /\ \E m \in store : m.id = player[c].id

\* C2: if find_by_username returns an existing account, execute fails with
\* DuplicatePlayerError("Username already exists") and neither find_by_email
\* nor create is invoked in that call, whether or not the email also exists.
C2_UsernameConflictWins ==
    \A c \in Calls :
        Has(c, Event("find_by_username", "found")) =>
            /\ pc[c] = "done"
            /\ outcome[c] = DuplicateUsername
            /\ ~HasOp(c, "find_by_email")
            /\ ~HasOp(c, "create")

\* A call whose username and email both exist in the table has ended.
C2_Witness ==
    \E c \in Calls :
        /\ Has(c, Event("find_by_username", "found"))
        /\ \E m \in store : m.username = req[c].username /\ m.email = req[c].email
        /\ pc[c] = "done"

\* C3: if find_by_username returns absent and find_by_email returns an
\* existing account, execute fails with DuplicatePlayerError("Email already
\* exists") and create is not invoked in that call.
C3_EmailConflict ==
    \A c \in Calls :
        (/\ Has(c, Event("find_by_username", "absent"))
         /\ Has(c, Event("find_by_email", "found"))) =>
            /\ pc[c] = "done"
            /\ outcome[c] = DuplicateEmail
            /\ ~HasOp(c, "create")

\* A call with a new username and an existing email has ended.
C3_Witness ==
    \E c \in Calls :
        /\ Has(c, Event("find_by_username", "absent"))
        /\ Has(c, Event("find_by_email", "found"))
        /\ pc[c] = "done"

\* the table holds the row of the player built by call c
Wrote(c) == player[c] # None /\ \E m \in store : m.id = player[c].id

\* the number of hashes computed by call c, by either hasher
Hashes(c) == Cardinality({i \in 1..Len(trace[c]) : trace[c][i].res = "hash"})

Ends(d) == pc[d] # "done" /\ pc'[d] = "done"

\* C4 as stated: in sequential use, a call that ends while the table holds an
\* account (u, e) ends with "Username already exists" if its username is u, and
\* with "Email already exists" if its username differs from u and its email is
\* e; the table is unchanged.
C4_AsStated ==
    [][\A d \in Calls :
         Ends(d) =>
            \A m \in store :
               /\ m.username = req[d].username =>
                     outcome'[d] = DuplicateUsername /\ store' = store
               /\ (m.username # req[d].username /\ m.email = req[d].email) =>
                     outcome'[d] = DuplicateEmail /\ store' = store]_vars

\* C4 (amended): in sequential use, a call that ends while the table holds an
\* account (u, e) ends with "Username already exists" if its username is u,
\* whatever its email, and with "Email already exists" if its email is e and
\* no persisted account carries its username; the table is unchanged by it.
C4_LaterDuplicateRejected ==
    [][\A d \in Calls :
         Ends(d) =>
            \A m \in store :
               /\ m.username = req[d].username =>
                     outcome'[d] = DuplicateUsername /\ store' = store
               /\ (/\ \A n \in store : n.username # req[d].username
                   /\ m.email = req[d].email) =>
                     outcome'[d] = DuplicateEmail /\ store' = store]_vars

\* Call c registered (u, e); call d ran afterwards with username u and another
\* email, was refused for the username and wrote nothing.
C4_Witness ==
    \E c, d \in Calls :
        /\ outcome[c].kind = "returned"
        /\ Wrote(c)
        /\ req[d].username = req[c].username
        /\ req[d].email # req[c].email
        /\ outcome[d] = DuplicateUsername
        /\ ~Wrote(d)

\* C5: within one execute call the username lookup completes before the email
\* lookup starts, the email lookup before hashing, hashing before create, and
\* each step starts only after its predecessor completed without error.
C5_StepOrder ==
    \A c \in Calls :
        \A i \in 1..Len(trace[c]) :
            LET ev == trace[c][i]
                Earlier(e) == \E j \in 1..(i - 1) : trace[c][j] = e
            IN
            /\ ev.op = "find_by_username" => i = 1
            /\ ev.op = "find_by_email" => Earlier(Event("find_by_username", "absent"))
            /\ ev.op \in {"pwd_context.hash", "bcrypt.hashpw"} =>
                  Earlier(Event("find_by_email", "absent"))
            /\ ev.op = "create" =>
                  \E j \in 1..(i - 1) :
                      /\ trace[c][j].op \in {"pwd_context.hash", "bcrypt.hashpw"}
                      /\ trace[c][j].res = "hash"
                      /\ \E k \in 1..(j - 1) : trace[c][k] = Event("find_by_email", "absent")

\* A call went through all four steps.
C5_Witness ==
    \E c \in Calls :
        /\ Has(c, Event("find_by_username", "absent"))
        /\ Has(c, Event("find_by_email", "absent"))
        /\ Has(c, Event("pwd_context.hash", "hash"))
        /\ Has(c, Event("create", "created"))

\* C6: create is invoked at most once in a call, and only when both lookups
\* returned absent, a password hash was obtained and Username and Email were
\* both constructed; after a duplicate, a hashing failure or a validation
\* failure it is never invoked.
C6_NoWriteUnlessAllChecksPass ==
    \A c \in Calls :
        /\ Count(c, "create") <= 1
        /\ HasOp(c, "create") =>
              /\ Has(c, Event("find_by_username", "absent"))
              /\ Has(c, Event("find_by_email", "absent"))
              /\ Hashes(c) = 1
              /\ password_hash[c] # None
              /\ Username(req[c].username).ok
              /\ Email(req[c].email).ok
        /\ (\/ Has(c, Event("find_by_username", "found"))
            \/ Has(c, Event("find_by_email", "found"))
            \/ (pc[c] = "done" /\ Hashes(c) = 0)
            \/ (pc[c] # "idle" /\ ~Username(req[c].username).ok)
            \/ (pc[c] # "idle" /\ ~Email(req[c].email).ok)) =>
              ~HasOp(c, "create") /\ ~Wrote(c)

\* One call wrote its account; another one, with an invalid username or email
\* and no duplicate, hashed the password and ended without invoking create.
C6_Witness ==
    \E c, d \in Calls :
        /\ Has(c, Event("create", "created"))
        /\ Wrote(c)
        /\ pc[d] = "done"
        /\ Hashes(d) = 1
        /\ ~HasOp(d, "create")

\* C7 as stated: a call makes exactly one find_by_username and at most one
\* find_by_email; on the success path it computes exactly one hash and makes
\* exactly one create write, and on no other path does it compute a hash or
\* invoke create.
C7_AsStated ==
    \A c \in Calls :
        pc[c] = "done" =>
            /\ Count(c, "find_by_username") = 1
            /\ Count(c, "find_by_email") <= 1
            /\ outcome[c].kind = "returned" => Hashes(c) = 1 /\ Count(c, "create") = 1
            /\ outcome[c].kind = "raised" => Hashes(c) = 0 /\ Count(c, "create") = 0

\* C7 (amended): a call makes exactly one find_by_username, at most one
\* find_by_email, at most one hash computation and at most one create
\* invocation; on the success path it makes both lookups, computes exactly one
\* hash and writes exactly one account; the write happens only on the success
\* path, and a hash is computed only after both lookups returned absent (also
\* on paths that then fail at validation or at create).
C7_SideEffects ==
    \A c \in Calls :
        pc[c] = "done" =>
            /\ Count(c, "find_by_username") = 1
            /\ Count(c, "find_by_email") <= 1
            /\ Hashes(c) <= 1
            /\ Count(c, "create") <= 1
            /\ outcome[c].kind = "returned" =>
                  /\ Count(c, "find_by_email") = 1
                  /\ Hashes(c) = 1
                  /\ Has(c, Event("create", "created"))
                  /\ Wrote(c)
            /\ outcome[c].kind = "raised" =>
                  ~Has(c, Event("create", "created")) /\ ~Wrote(c)
            /\ Hashes(c) = 1 =>
                  /\ Has(c, Event("find_by_username", "absent"))
                  /\ Has(c, Event("find_by_email", "absent"))

\* One call succeeded; another computed a hash and then failed: at validation,
\* or at a create the table rejected.
C7_Witness ==
    \E c, d \in Calls :
        /\ outcome[c].kind = "returned"
        /\ outcome[d].kind = "raised"
        /\ Hashes(d) = 1
        /\ Has(d, Event("create", "raised"))

ValidationMessages ==
    {"Username must be between 3 and 30 characters",
     "Username can only contain letters, numbers, underscores, and hyphens",
     "Email cannot be empty",
     "Invalid email format"}

NoDuplicateButInvalid(c) ==
    /\ Has(c, Event("find_by_username", "absent"))
    /\ Has(c, Event("find_by_email", "absent"))
    /\ ~Username(req[c].username).ok \/ ~Email(req[c].email).ok

OverLengthReported(c) ==
    \E i \in 1..Len(trace[c]) :
        /\ trace[c][i].op = "pwd_context.hash"
        /\ trace[c][i].res = "raised"
        /\ trace[c][i].exc = "ValueError"
        /\ trace[c][i].msg \in OverLengthMessages

Min(a, b) == IF a <= b THEN a ELSE b

\* the first min(len, 72) bytes of the UTF-8 password of call c
First72(c) ==
    LET bytes == PasswordBytes[req[c].password]
    IN  SubSeq(bytes, 1, Min(Len(bytes), 72))

FallbackHashed(c) ==
    /\ Has(c, Event("bcrypt.hashpw", "hash"))
    /\ password_hash[c] # None
    /\ password_hash[c].key = First72(c)

\* C9 as stated: when the primary hasher reports the over-length input, the
\* call hashes the first min(len, 72) bytes with the fallback hasher and goes
\* on to invoke create with that hash, whatever the password length.
C9_AsStated ==
    \A c \in Calls :
        OverLengthReported(c) =>
            /\ FallbackHashed(c)
            /\ pc[c] = "done" =>
                  HasOp(c, "create") /\ player[c].password_hash = password_hash[c]

\* C9 (amended): when the primary hasher reports the over-length input, the
\* hashing step does not fail: the call hashes the first min(len, 72) bytes
\* with the fallback hasher, whatever the password length; it then invokes
\* create with that hash if the raw username and email are valid, and fails
\* with the constructor's ValueError otherwise.
C9_TruncationFallback ==
    \A c \in Calls :
        OverLengthReported(c) =>
            /\ FallbackHashed(c)
            /\ pc[c] = "done" =>
                  IF Username(req[c].username).ok /\ Email(req[c].email).ok
                  THEN HasOp(c, "create") /\ player[c].password_hash = password_hash[c]
                  ELSE /\ outcome[c].kind = "raised"
                       /\ outcome[c].msg \in ValidationMessages
                       /\ ~HasOp(c, "create")

\* A 100-byte password was reported over-length, hashed from its first 72
\* bytes, and the account was created with that hash.
C9_Witness ==
    \E c \in Calls :
        /\ OverLengthReported(c)
        /\ Len(PasswordBytes[req[c].password]) = 100
        /\ Len(password_hash[c].key) = 72
        /\ Has(c, Event("create", "created"))
        /\ \E m \in store : m.id = player[c].id /\ m.password_hash = password_hash[c]

\* C10: a failure of the primary hasher other than the over-length report is
\* raised by execute unchanged (same class, same message); the fallback hasher
\* is not used and create is not invoked.
C10_OtherHashFailurePropagates ==
    \A c \in Calls :
        \A i \in 1..Len(trace[c]) :
            LET ev == trace[c][i] IN
            (/\ ev.op = "pwd_context.hash"
             /\ ev.res = "raised"
             /\ ~(IsInstance(ev.exc, "ValueError") /\ ev.msg \in OverLengthMessages)) =>
                /\ pc[c] = "done"
                /\ outcome[c] = [kind |-> "raised", exc |-> ev.exc, msg |-> ev.msg]
                /\ ~HasOp(c, "bcrypt.hashpw")
                /\ ~HasOp(c, "create")
                /\ password_hash[c] = None

\* One call ended with the hasher's other ValueError, another with its
\* RuntimeError.
C10_Witness ==
    \E c, d \in Calls :
        /\ outcome[c] = Raised(Raise("ValueError", "Some other error"))
        /\ outcome[d] = Raised(Raise("RuntimeError", "hashing backend failure"))
        /\ HasOp(c, "pwd_context.hash")
        /\ HasOp(d, "pwd_context.hash")

\* C11: on the success path execute returns exactly the value the repository's
\* create returned, whatever that value is, and not the account it constructed
\* itself; and it returns a value only when create returned one.
C11_PassThrough ==
    \A c \in Calls :
        /\ (created[c] # None /\ created[c].ok) => outcome[c] = Returned(created[c].value)
        /\ outcome[c].kind = "returned" =>
              created[c] # None /\ created[c].ok /\ Has(c, Event("create", "created"))

\* create returned an account that is not the one execute constructed, and
\* execute returned it.
C11_Witness ==
    \E c \in Calls :
        /\ created[c] # None
        /\ created[c].ok
        /\ created[c].value # player[c]
        /\ created[c].value.id # player[c].id
        /\ outcome[c] = Returned(created[c].value)

\* C12: the account handed to create carries the supplied username, email and
\* faction unchanged, the hash obtained in the call, the supplied starting
\* resources (the empty mapping when they are omitted), and an identifier that
\* no other account constructed by a call and no account already in the table
\* carries; create is never invoked without such an account.
C12_AccountHandedToCreate ==
    \A c \in Calls :
        /\ HasOp(c, "create") => player[c] # None
        /\ player[c] # None =>
              /\ player[c].username.value = req[c].username
              /\ player[c].email.value = req[c].email
              /\ player[c].country = req[c].country
              /\ player[c].password_hash = password_hash[c]
              /\ player[c].initial_resources =
                    (IF req[c].initial_resources = None THEN EmptyDict
                     ELSE req[c].initial_resources)
              /\ player[c].id # SeedPlayer.id
              /\ \A d \in Calls \ {c} : player[d] # None => player[d].id # player[c].id
              /\ created[c] # None =>
                    \A m \in store : m.id = player[c].id => m = ToModel(player[c])

\* Two calls handed their accounts to create: one had omitted the resources,
\* the other had supplied some.
C12_Witness ==
    \E c, d \in Calls :
        /\ HasOp(c, "create")
        /\ HasOp(d, "create")
        /\ req[c].initial_resources = None
        /\ player[c].initial_resources = EmptyDict
        /\ req[d].initial_resources # None
        /\ player[d].initial_resources = Dict({<<"money", 1000>>})
        /\ player[c].id # player[d].id

\* the raw password, had it been stored as the credential
PlainCredential(password) == [ident |-> "plain", salt |-> "", key |-> PasswordBytes[password]]

\* C13: whenever create is invoked, on the primary hashing path and on the
\* truncation-fallback path alike, the password_hash of the account passed to
\* it is a bcrypt hash and not the raw password; so is the credential of every
\* row of the table.
C13_HashNeverRawPassword ==
    /\ \A c \in Calls :
          HasOp(c, "create") =>
             /\ player[c].password_hash # PlainCredential(req[c].password)
             /\ player[c].password_hash.ident = "2b"
             /\ player[c].password_hash.key = First72(c)
    /\ \A m \in store, c \in Calls :
          pc[c] # "idle" => m.password_hash # PlainCredential(req[c].password)

\* Two registrations succeeded, one hashed by the primary hasher, the other by
\* the fallback.
C13_Witness ==
    \E c, d \in Calls :
        /\ outcome[c].kind = "returned"
        /\ outcome[d].kind = "returned"
        /\ Has(c, Event("pwd_context.hash", "hash"))
        /\ Has(d, Event("bcrypt.hashpw", "hash"))
        /\ Wrote(c)
        /\ Wrote(d)

PastPreChecks(c) ==
    /\ Has(c, Event("find_by_username", "absent"))
    /\ Has(c, Event("find_by_email", "absent"))

IntegrityRejected(c) ==
    /\ outcome[c].kind = "raised"
    /\ outcome[c].exc = "IntegrityError"
    /\ Has(c, Event("create", "raised"))

\* C14: of two concurrent calls with the same username and different emails,
\* at most one returns an account and at most one row carries the username;
\* when both passed the pre-checks and both invoked create, a create was
\* rejected by the table with a uniqueness violation and wrote nothing.
C14_RaceLoserRejected ==
    \A c, d \in Calls :
        (/\ c # d
         /\ pc[c] # "idle"
         /\ pc[d] # "idle"
         /\ req[c].username = req[d].username
         /\ req[c].email # req[d].email) =>
            /\ ~(outcome[c].kind = "returned" /\ outcome[d].kind = "returned")
            /\ ~(Wrote(c) /\ Wrote(d))
            /\ (HasOp(c, "create") /\ HasOp(d, "create")) =>
                  /\ IntegrityRejected(c) \/ IntegrityRejected(d)
                  /\ IntegrityRejected(c) => ~Wrote(c)
                  /\ IntegrityRejected(d) => ~Wrote(d)
                  /\ Cardinality({m \in store : m.username = req[c].username}) = 1

\* Both calls are past their pre-checks, each is about to invoke create, and no
\* row carries their username yet.
C14_Witness ==
    \E c, d \in Calls :
        /\ c # d
        /\ req[c].username = req[d].username
        /\ req[c].email # req[d].email
        /\ PastPreChecks(c)
        /\ PastPreChecks(d)
        /\ pc[c] = "create"
        /\ pc[d] = "create"
        /\ ~HasOp(c, "create")
        /\ ~HasOp(d, "create")
        /\ \A m \in store : m.username # req[c].username

\* C15 as stated: a request whose create was rejected by the table's
\* uniqueness constraints, after both pre-checks passed, is answered like a
\* DuplicatePlayerError, with 409.
C15_AsStated ==
    \A c \in Calls :
        (/\ pc[c] = "responded"
         /\ PastPreChecks(c)
         /\ IntegrityRejected(c)) => response[c].status = 409

\* The request of a race loser has been answered.
C15_Witness ==
    \E c, d \in Calls :
        /\ pc[c] = "responded"
        /\ PastPreChecks(c)
        /\ IntegrityRejected(c)
        /\ PastPreChecks(d)
        /\ Wrote(d)
        /\ req[c].username = req[d].username

\* the token in hand was issued by the service at this very instant
IssuedNow == issued # None /\ token = issued.token /\ issued.at = clock

VerifiedNow == last # None /\ last.op = "verify_token"

Ttl == service.settings.jwt_access_token_expire_minutes

\* C16 as stated: create_access_token(id) followed at once by verify_token
\* succeeds and returns claims whose subject is id and whose expiry is the
\* issue time plus ttl minutes.
C16_AsStated ==
    (VerifiedNow /\ IssuedNow) =>
        /\ last.result.ok
        /\ last.result.value.sub = issued.id
        /\ last.result.value.exp * TicksPerSecond = issued.at + Minutes(Ttl)

\* C16 (amended): create_access_token(id) followed at once by verify_token
\* succeeds and returns claims whose subject is id and whose expiry is the
\* issue time cut to whole seconds plus ttl minutes: at most the issue time
\* plus ttl minutes, and less than one second before it.
C16_IssueThenVerify ==
    (VerifiedNow /\ IssuedNow) =>
        /\ last.result.ok
        /\ last.result.value.sub = issued.id
        /\ last.result.value.exp =
              (issued.at \div TicksPerSecond) + Ttl * SecondsPerMinute
        /\ last.result.value.exp * TicksPerSecond <= issued.at + Minutes(Ttl)
        /\ last.result.value.exp * TicksPerSecond > issued.at + Minutes(Ttl) - TicksPerSecond

\* A token issued part-way through a second was verified at once.
C16_Witness ==
    /\ VerifiedNow
    /\ IssuedNow
    /\ issued.at % TicksPerSecond # 0
    /\ last.result.ok

\* C17: constructing the service without a secret fails with the
\* construction-time error and leaves no service; every service that exists
\* holds the non-empty secret it was constructed with; create_access_token
\* never fails, and verify_token and get_player_id_from_token fail only with
\* token errors, never for a missing secret.
C17_SecretCheckedAtConstruction ==
    /\ service # None =>
          /\ ~Falsy(service.jwt_secret_key)
          /\ service.jwt_secret_key = service.settings.jwt_secret_key
    /\ last # None =>
          /\ (last.op = "AuthService" /\ Falsy(last.arg.jwt_secret_key)) =>
                /\ last.result = Raise("ValueError", "JWT_SECRET_KEY must be set")
                /\ service = None
          /\ (last.op = "AuthService" /\ ~Falsy(last.arg.jwt_secret_key)) =>
                last.result.ok /\ service = last.result.value
          /\ last.op = "create_access_token" => last.result.ok
          /\ (last.op \in {"verify_token", "get_player_id_from_token"} /\ ~last.result.ok) =>
                /\ IsInstance(last.result.exc, "JWTError")
                /\ last.result.msg # "JWT_SECRET_KEY must be set"

\* Construction with the secret unset has just failed.
C17_Witness ==
    /\ last # None
    /\ last.op = "AuthService"
    /\ last.arg.jwt_secret_key = None
    /\ ~last.result.ok
    /\ service = None

\* the token carries the signature of the service's key and algorithm
CorrectlySigned(t) ==
    /\ "malformed" \notin DOMAIN t
    /\ t.header.alg = service.settings.jwt_algorithm
    /\ t.sig = Sign(service.jwt_secret_key, t.header.alg, t.claims)

HasExp(t) == "malformed" \notin DOMAIN t /\ "exp" \in DOMAIN t.claims

GotNow == last # None /\ last.op = "get_player_id_from_token"

NoPlayerId == Raise("JWTError", "Token does not contain player ID")

\* C19 as stated: get_player_id_from_token fails as verify_token does when that
\* fails; otherwise it fails with JWTError if the subject is missing or not a
\* string and returns the subject if not; so a token issued for id gives id.
C19_AsStated ==
    GotNow =>
        LET v == VerifyToken(service, last.arg, clock) IN
        /\ ~v.ok => last.result = v
        /\ v.ok =>
              IF "sub" \notin DOMAIN v.value \/ ~IsStr(v.value.sub)
              THEN last.result = NoPlayerId
              ELSE last.result = Ok(v.value.sub)
        /\ IssuedNow => last.result = Ok(issued.id)

\* C19 (amended): get_player_id_from_token fails as verify_token does when that
\* fails; otherwise it fails with JWTError if the subject is missing, is not a
\* string or is the empty string, and returns the subject if not; so a token
\* issued for a non-empty id gives id, and one issued for "" is refused.
C19_PlayerIdFromToken ==
    GotNow =>
        LET v == VerifyToken(service, last.arg, clock) IN
        /\ ~v.ok => last.result = v /\ IsInstance(last.result.exc, "JWTError")
        /\ v.ok =>
              IF "sub" \notin DOMAIN v.value \/ ~IsStr(v.value.sub) \/ v.value.sub = Str("")
              THEN last.result = NoPlayerId
              ELSE last.result = Ok(v.value.sub)
        /\ IssuedNow =>
              last.result = (IF issued.id = Str("") THEN NoPlayerId ELSE Ok(issued.id))

\* A correctly signed token without a subject was refused.
C19_Witness ==
    /\ GotNow
    /\ CorrectlySigned(last.arg)
    /\ "sub" \notin DOMAIN last.arg.claims
    /\ last.result = NoPlayerId

UsernameMade == last # None /\ last.op = "Username"

OutsideCharset(v) == \E i \in 1..Len(v) : v[i] \notin UsernameChars

\* C20 as stated: Username construction fails for every string shorter than 3
\* or longer than 30 and for every string with a character outside
\* [A-Za-z0-9_-]; for every other string it succeeds and the value constructed
\* is the input unchanged.
C20_AsStated ==
    UsernameMade =>
        IF \/ Len(last.arg) < UsernameMinLen
           \/ Len(last.arg) > UsernameMaxLen
           \/ OutsideCharset(last.arg)
        THEN ~last.result.ok
        ELSE last.result = Ok([cls |-> "Username", value |-> last.arg])

\* A string that ends with a newline was accepted as a username.
C20_Witness ==
    /\ UsernameMade
    /\ Len(last.arg) >= UsernameMinLen
    /\ Last(last.arg) = "nl"
    /\ OutsideCharset(last.arg)
    /\ last.result = Ok([cls |-> "Username", value |-> last.arg])

EmailMade == last # None /\ last.op = "Email"

\* the whole string is local@domain.tld: a local part of letters, digits and
\* ._%+-, a domain of letters, digits, dots and hyphens, a dot, and a
\* top-level domain of two or more letters
LocalAtDomainTld(v) ==
    \E at \in 1..Len(v), dot \in 1..Len(v) :
        /\ v[at] = "@"
        /\ at >= 2
        /\ AllIn(v, 1, at - 1, EmailLocalChars)
        /\ dot >= at + 2
        /\ AllIn(v, at + 1, dot - 1, EmailDomainChars)
        /\ v[dot] = "."
        /\ Len(v) - dot >= 2
        /\ AllIn(v, dot + 1, Len(v), Letters)

\* C21 as stated: Email construction fails for every string that is not of the
\* form local@domain.tld, the empty string with "Email cannot be empty" and
\* every other one with "Invalid email format"; every string of that form is
\* accepted and stored unchanged.
C21_AsStated ==
    EmailMade =>
        IF last.arg = <<>>
        THEN last.result = Raise("ValueError", "Email cannot be empty")
        ELSE IF ~LocalAtDomainTld(last.arg)
        THEN last.result = Raise("ValueError", "Invalid email format")
        ELSE last.result = Ok([cls |-> "Email", value |-> last.arg])

\* A string of the form local@domain.tld followed by a newline was accepted as
\* an email.
C21_Witness ==
    /\ EmailMade
    /\ last.arg # <<>>
    /\ Last(last.arg) = "nl"
    /\ ~LocalAtDomainTld(last.arg)
    /\ LocalAtDomainTld(Front(last.arg))
    /\ last.result = Ok([cls |-> "Email", value |-> last.arg])


Compared == last # None /\ last.op = "eq"

SameClass(a, b) == "cls" \in DOMAIN b /\ b.cls = a.cls

\* C22: two Username values, and two Email values, are equal exactly when
\* their wrapped strings are equal; equal values have equal hashes; a value
\* object is never equal to a raw string, a number or None.
C22_ValueEquality ==
    Compared =>
        LET a == last.arg[1]
            b == last.arg[2]
        IN /\ SameClass(a, b) => (last.result.eq <=> a.value = b.value)
           /\ (SameClass(a, b) /\ last.result.eq) => last.result.hash[1] = last.result.hash[2]
           /\ ("cls" \notin DOMAIN b) => ~last.result.eq

\* two distinct strings of one class with the same hash, compared unequal
C22_Witness ==
    /\ Compared
    /\ SameClass(last.arg[1], last.arg[2])
    /\ last.arg[1].value # last.arg[2].value
    /\ ~last.result.eq
    /\ last.result.hash[1] = last.result.hash[2]

\* a value object compared with the raw string it wraps
C22_WitnessRaw ==
    /\ Compared
    /\ last.arg[2] = Str(last.arg[1].value)
    /\ ~last.result.eq

PlayersCompared == last # None /\ last.op = "player_eq" /\ IsPlayer(last.arg[2])

SameFields(p, q) == [p EXCEPT !.id = 0] = [q EXCEPT !.id = 0]

\* C23: two Player entities are equal iff their ids are equal: two players
\* built from identical field values without an explicit id are not equal,
\* two players with the same id and different field values are equal; equal
\* players have equal hashes.
C23_IdentityById ==
    PlayersCompared =>
        LET p == last.arg[1]
            q == last.arg[2]
            r == last.result
        IN /\ r.eq <=> p.id = q.id
           /\ (SameFields(p, q) /\ ~r.explicit[1] /\ ~r.explicit[2]) => ~r.eq
           /\ (p.id = q.id /\ ~SameFields(p, q)) => r.eq
           /\ r.eq => r.hash[1] = r.hash[2]

\* identical field values, no explicit id: unequal
C23_Witness ==
    /\ PlayersCompared
    /\ SameFields(last.arg[1], last.arg[2])
    /\ ~last.result.explicit[1] /\ ~last.result.explicit[2]
    /\ ~last.result.eq

\* the same id, different field values: equal, with equal hashes
C23_WitnessSameId ==
    /\ PlayersCompared
    /\ ~SameFields(last.arg[1], last.arg[2])
    /\ last.result.eq
    /\ last.result.hash[1] = last.result.hash[2]

CreateSucceeded(c) == created[c] # None /\ created[c].ok

\* the accounts whose create succeeded, with the one created before the
\* calls of the model when the table started with it
CreatedAccounts ==
    {player[c] : c \in {x \in Calls : CreateSucceeded(x)}}
        \cup (IF ToModel(SeedPlayer) \in store THEN {SeedPlayer} ELSE {})

\* r is an account with p's id, username, email, faction and resources
Carries(r, p) ==
    /\ r.ok
    /\ r.value # None
    /\ r.value.id = p.id
    /\ r.value.username = p.username
    /\ r.value.email = p.email
    /\ r.value.country = p.country
    /\ r.value.initial_resources = p.initial_resources

ProbedUsernames == {U1, U2, UShort, <<"Z", "Z", "Z">>, E1}
ProbedEmails == {E1, E2, ENoTld, <<"Z", "@", "Z", ".", "Z", "Z">>, U1}

\* C24: after create(p) succeeds, create's result and the results of
\* find_by_username(p.username) and find_by_email(p.email) all have p's id,
\* username, email, faction and resources; both finders return absent for
\* every username and email that no created account carries.
C24_RoundTrip ==
    /\ \A c \in Calls :
           CreateSucceeded(c) =>
               /\ Carries(created[c], player[c])
               /\ Carries(RepoFindByUsername(store, player[c].username.value), player[c])
               /\ Carries(RepoFindByEmail(store, player[c].email.value), player[c])
    /\ \A u \in ProbedUsernames :
           (\A a \in CreatedAccounts : a.username.value # u)
               => RepoFindByUsername(store, u) = Ok(None)
    /\ \A e \in ProbedEmails :
           (\A a \in CreatedAccounts : a.email.value # e)
               => RepoFindByEmail(store, e) = Ok(None)

\* an account with resources was created next to another account, and one
\* probed username is carried by none
C24_Witness ==
    /\ \E c \in Calls :
           /\ CreateSucceeded(c)
           /\ player[c].initial_resources # EmptyDict
           /\ Cardinality(store) = 2
    /\ \E u \in ProbedUsernames :
           /\ \A a \in CreatedAccounts : a.username.value # u
           /\ RepoFindByUsername(store, u) = Ok(None)

\* the request of c reached execute, execute raised, and the handler answered
FailureAnswered(c) == pc[c] = "responded" /\ outcome[c].kind = "raised"

GenericDetail == "An unexpected error occurred during registration."

\* C25: the endpoint maps every failure of the use case to one response:
\* DuplicatePlayerError to 409 with the error's message as detail, any other
\* ValueError to 422, any other exception to 500 with a fixed detail that is
\* not the error's message; what leaves the handler is one of these HTTP
\* errors.
C25_FailureMapping ==
    \A c \in Calls :
        FailureAnswered(c) =>
            LET e == outcome[c]
                r == response[c]
            IN /\ DOMAIN r = {"status", "detail"}
               /\ r.status \in {409, 422, 500}
               /\ e.exc = "DuplicatePlayerError" <=> r.status = 409
               /\ (e.exc = "ValueError") <=> r.status = 422
               /\ r.status = 409 => r.detail = e.msg
               /\ r.status = 500 => (r.detail = GenericDetail /\ r.detail # e.msg)

\* one request was answered 409 and another 500
C25_Witness ==
    \E c, o \in Calls :
        /\ FailureAnswered(c) /\ response[c].status = 409
        /\ FailureAnswered(o) /\ response[o].status = 500
        /\ outcome[o].exc \notin {"DuplicatePlayerError", "ValueError"}

C25_Witness422 ==
    \E c \in Calls : FailureAnswered(c) /\ response[c].status = 422

Answered(c) == pc[c] = "responded"

HasToken(r) == "access_token" \in DOMAIN r

\* C26: the endpoint issues a token only after the use case returned an
\* account, never on a failure path (a rejected body, a failed execute, a
\* failure after execute), and the token's subject is the string form of the
\* id of the account returned in the same 201 response.
C26_TokenOnlyWithAccount ==
    \A c \in Calls :
        Answered(c) =>
            LET r == response[c] IN
            /\ HasToken(r) <=> outcome[c].kind = "returned"
            /\ HasToken(r) =>
                   /\ r.status = 201
                   /\ r.player.id = outcome[c].value.id
                   /\ r.access_token.claims.sub = UuidStr(r.player.id)
            /\ ~HasToken(r) => r.status \in {409, 422, 500}

\* two accounts were registered and each response carries its own subject
C26_Witness ==
    \E c, o \in Calls :
        /\ Answered(c) /\ Answered(o)
        /\ HasToken(response[c]) /\ HasToken(response[o])
        /\ response[c].access_token.claims.sub # response[o].access_token.claims.sub

\* one request got a token, another ended on a failure path without one
C26_WitnessFailure ==
    \E c, o \in Calls :
        /\ Answered(c) /\ HasToken(response[c])
        /\ Answered(o) /\ outcome[o].kind = "raised" /\ ~HasToken(response[o])

LastEvent(c) == trace[c][Len(trace[c])]

\* the event at position i of call c is a call that raised
RaisedAt(c, i) == trace[c][i].res = "raised"

\* the over-length report of the primary hasher, answered by the fallback
RecoveredAt(c, i) ==
    /\ trace[c][i].op = "pwd_context.hash"
    /\ trace[c][i].exc = "ValueError"
    /\ trace[c][i].msg \in OverLengthMessages
    /\ i < Len(trace[c])
    /\ trace[c][i + 1] = Event("bcrypt.hashpw", "hash")

\* C27: every execute call that ends has exactly one outcome: it returns the
\* repository's account, or it raises DuplicatePlayerError, a validation
\* error, or the unchanged error of the failing hashing or repository call;
\* no error is swallowed, the over-length hashing report being the only
\* failure recovered locally.
C27_OneOutcome ==
    \A c \in Calls :
        pc[c] = "done" =>
            LET o == outcome[c]
                ev == LastEvent(c)
            IN /\ o.kind \in {"returned", "raised"}
               /\ o.kind = "returned" =>
                      /\ ev = Event("create", "created")
                      /\ created[c] = Ok(o.value)
               /\ o.kind = "raised" =>
                      \/ /\ ev \in {Event("find_by_username", "found"),
                                    Event("find_by_email", "found")}
                         /\ o.exc = "DuplicatePlayerError"
                      \/ /\ ev \in {Event("Username", "raised"), Event("Email", "raised")}
                         /\ o.exc = "ValueError"
                         /\ o.msg \in ValidationMessages
                      \/ /\ ev.op = "pwd_context.hash"
                         /\ ev.res = "raised"
                         /\ o = Raised(PwdContextHash(req[c].password,
                                           IF ev.exc = "RuntimeError" THEN "runtime_error"
                                           ELSE "value_error", "salt"))
                         /\ o.exc = ev.exc /\ o.msg = ev.msg
                      \/ /\ ev = Event("create", "raised")
                         /\ ~created[c].ok
                         /\ o = Raised(created[c])
               /\ \A i \in 1..Len(trace[c]) :
                      RaisedAt(c, i) =>
                          \/ i = Len(trace[c]) /\ o.kind = "raised"
                          \/ RecoveredAt(c, i)

\* one call recovered from the over-length report and returned the
\* repository's account, another raised the error of its create call
C27_Witness ==
    \E c, d \in Calls :
        /\ pc[c] = "done" /\ outcome[c].kind = "returned"
        /\ \E i \in 1..Len(trace[c]) : RaisedAt(c, i) /\ RecoveredAt(c, i)
        /\ pc[d] = "done" /\ outcome[d].kind = "raised"
        /\ LastEvent(d) = Event("create", "raised")

Closed == db.phase = "closed"

\* C28: the session dependency commits exactly once when the request body
\* completes without an exception; when the body raises, or when the commit
\* itself fails, it rolls back exactly once and re-raises the exception; the
\* rows flushed in a request that ends in an error are not committed.
C28_CommitOrRollback ==
    Closed =>
        /\ db.body = "returned" => db.commits = 1
        /\ (db.body = "returned" /\ db.commit = "ok") =>
               /\ db.rollbacks = 0
               /\ db.result = "ok"
               /\ db.committed = db.before \cup db.flushed
        /\ db.body = "raised" =>
               /\ db.commits = 0
               /\ db.rollbacks = 1
               /\ db.result \in BodyExceptions
               /\ db.result = db.error
        /\ db.commit = "failed" =>
               /\ db.rollbacks = 1
               /\ db.result \in CommitExceptions
               /\ db.result = db.error
        /\ db.result # "ok" => db.committed = db.before
        /\ db.pending = {}
        /\ db.closes = 1

\* a request flushed a row and ended in an error after an earlier request
\* had committed another row: the flushed row is not in the table
C28_Witness ==
    /\ Closed
    /\ db.served = 2
    /\ db.before # {}
    /\ db.flushed # {}
    /\ db.body = "raised"
    /\ db.rollbacks = 1
    /\ db.committed = db.before

\* the commit of a request that flushed a row failed
C28_WitnessCommitFailed ==
    /\ Closed
    /\ db.flushed # {}
    /\ db.commit = "failed"
    /\ db.commits = 1 /\ db.rollbacks = 1
    /\ db.committed = db.before

RaisedValueError(r) == ~r.ok /\ r.exc = "ValueError"

\* C29: every account persisted through execute has a username and an email
\* that satisfy the Username and Email validation rules, under any sequence
\* of registrations; converting a stored row back to a domain account in
\* find_by_username, find_by_email or create never raises a validation error.
C29_StoredRowsValid ==
    /\ \A m \in store :
           /\ Username(m.username).ok
           /\ Email(m.email).ok
           /\ ToDomain(m).ok
    /\ \A r \in Requests :
           /\ ~RaisedValueError(RepoFindByUsername(store, r.username))
           /\ ~RaisedValueError(RepoFindByEmail(store, r.email))
    /\ \A c \in Calls :
           /\ ~Has(c, Event("find_by_username", "raised"))
           /\ ~Has(c, Event("find_by_email", "raised"))
           /\ created[c] # None => ~RaisedValueError(created[c])

\* an account was persisted through execute while another call, whose
\* username or email breaks the rules, ended with a validation error
C29_Witness ==
    \E c, d \in Calls :
        /\ CreateSucceeded(c)
        /\ ToModel(player[c]) \in store
        /\ pc[d] = "done"
        /\ outcome[d].kind = "raised"
        /\ outcome[d].exc = "ValueError"
        /\ outcome[d].msg \in ValidationMessages

C30_WitnessRejected ==
    /\ UsernameMade
    /\ Len(last.arg) = UsernameMaxLen + 1
    /\ ~SchemaUsernameAccepts(last.arg)
    /\ ~last.result.ok
====
